---- MODULE Spec2Model ----
(***************************************************************************)
(* agent-debug-ui: the execution-trace console.  Two variants of the App   *)
(* component exist in the repository:                                      *)
(*   "threads"  the App with the thread explorer (onRun, loadThread,       *)
(*              new-thread button, step hover),                            *)
(*   "basic"    src/src/App.jsx (handleSubmit).                            *)
(* The model is the React state of one mounted App plus the asynchronous   *)
(* work it has in flight (POST /chat streams, GET /history fetches).       *)
(***************************************************************************)
EXTENDS Integers, Sequences, FiniteSets, TLC

VARIABLES
  ui,              \* which App component is mounted: "threads" or "basic"
  graphFetch,      \* the GET /graph issued at mount: "pending", "loaded", "failed"
  nodes,           \* useState([]), set by the /graph response
  edges,           \* useState([]), set by the /graph response
  isStateful,      \* useState(false), set by the /graph response
  threads,         \* useState([]), set by the /threads response
  currentThreadId, \* useState(`debug-${Date.now()}`)
  messages,        \* useState([]): the ordered TraceSteps
  activeNode,      \* useState(null)
  hovered,         \* TRUE while the pointer is over a step of the trace panel
  now,             \* the value Date.now() returned when it was last read
  runs,            \* one record per POST /chat issued by a submit handler
  historyFetches,  \* GET /history/:id requests in flight, counted per id
  ops,             \* number of user operations so far (bounds the session)
  last             \* the handler or continuation that ran last, with its input

vars == <<ui, graphFetch, nodes, edges, isStateful, threads, currentThreadId, messages, activeNode,
          hovered, now, runs, historyFetches, ops, last>>

---------------------------------------------------------------------------
(* Bounds of the model *)

MaxOps == 2           \* user operations in one session: submits that reach
                      \* POST /chat, thread selections, new threads, hovers
MaxFrames == 3        \* frames delivered on one stream
MaxSessionFrames == 2 \* frames delivered on all streams of one session
MaxNodes == 2         \* nodes in a /graph response
MaxEdges == 1         \* edges in a /graph response
MaxItems == 2         \* elements of an array payload

---------------------------------------------------------------------------
(* JavaScript values.  Strings stand for themselves; the three non-string  *)
(* values the handlers meet are named.                                     *)

Null == "null"
Undefined == "undefined"
True == "true"

\* JavaScript truthiness of a value (if (data.node), if (!val)).
Truthy(v) == v \notin {Null, Undefined, ""}

\* String.prototype.trim on the inputs of the model.
Trim(s) == IF s = " " THEN "" ELSE s

---------------------------------------------------------------------------
(* The wire text of a stream.  Text is a sequence of tokens; a chunk       *)
(* boundary may fall between any two tokens.                               *)

TAG == "data: "
LF == "\n"
Sentinel == "..."

\* Tokens whose text contains the substring 'done'.
DoneTokens == {"done", "done!", "done_node"}

\* The JSON text of an object with one or two members, and of a frame.
Obj1(k, v) == <<"{", k, v, "}">>
Obj2(k1, v1, k2, v2) == <<"{", k1, v1, k2, v2, "}">>
Wire(body) == <<TAG>> \o body \o <<LF, LF>>

RECURSIVE Concat(_)
Concat(ss) == IF ss = <<>> THEN <<>> ELSE Head(ss) \o Concat(Tail(ss))

\* String.prototype.split('\n\n'): cut at each non-overlapping blank line.
RECURSIVE SplitAcc(_, _, _)
SplitAcc(rest, cur, out) ==
  IF rest = <<>> THEN Append(out, cur)
  ELSE IF Len(rest) >= 2 /\ rest[1] = LF /\ rest[2] = LF
       THEN SplitAcc(SubSeq(rest, 3, Len(rest)), <<>>, Append(out, cur))
       ELSE SplitAcc(Tail(rest), Append(cur, Head(rest)), out)

Split(text) == SplitAcc(text, <<>>, <<>>)

\* line.startsWith('data: ')
StartsWithTag(line) == Len(line) >= 1 /\ line[1] = TAG

\* line.includes('done')
IncludesDone(line) == \E i \in 1..Len(line) : line[i] \in DoneTokens

\* line.replace('data: ', ''): the first occurrence is removed.
RECURSIVE ReplaceTag(_)
ReplaceTag(line) ==
  IF line = <<>> THEN <<>>
  ELSE IF Head(line) = TAG THEN Tail(line)
       ELSE <<Head(line)>> \o ReplaceTag(Tail(line))

\* JSON.parse.  The result is tagged: a thrown SyntaxError, null, or an
\* object given as its members in order.
Punct == {"{", "}", TAG, LF}

IsObjectText(t) ==
  /\ Len(t) >= 2
  /\ t[1] = "{"
  /\ t[Len(t)] = "}"
  /\ (Len(t) - 2) % 2 = 0
  /\ \A i \in 2..(Len(t) - 1) : t[i] \notin Punct

\* White space around a JSON text is skipped by JSON.parse.
RECURSIVE SkipLF(_)
SkipLF(t) == IF t # <<>> /\ Head(t) = LF THEN SkipLF(Tail(t)) ELSE t

RECURSIVE DropLF(_)
DropLF(t) ==
  IF t # <<>> /\ t[Len(t)] = LF THEN DropLF(SubSeq(t, 1, Len(t) - 1)) ELSE t

JSONParse(text) ==
  LET t == DropLF(SkipLF(text)) IN
  IF t = <<Null>> THEN [threw |-> FALSE, isNull |-> TRUE, members |-> <<>>]
  ELSE IF IsObjectText(t)
       THEN [threw |-> FALSE, isNull |-> FALSE,
             members |-> [i \in 1..((Len(t) - 2) \div 2) |->
                            <<t[2 * i], t[2 * i + 1]>>]]
       ELSE [threw |-> TRUE, isNull |-> FALSE, members |-> <<>>]

\* data[k]: the value of the last member named k, undefined when there is none.
Get(data, k) ==
  LET idx == {i \in 1..Len(data.members) : data.members[i][1] = k}
  IN  IF idx = {} THEN Undefined
      ELSE data.members[CHOOSE i \in idx : \A j \in idx : j <= i][2]

\* Object.keys(data)[0]
FirstKey(data) ==
  IF data.members = <<>> THEN Undefined ELSE data.members[1][1]

---------------------------------------------------------------------------
(* TraceSteps.  A step of the "threads" App is                             *)
(*   { node, updates: { messages: [{ content, role }] } }                  *)
(* and a step of the "basic" App is { role, node, content }; both are kept *)
(* as the record of their three fields.                                    *)

Step(node, role, content) == [node |-> node, role |-> role, content |-> content]

\* The decode state threaded through the lines of one chunk; threw is set
\* while an exception is propagating.
Acc(m, a) == [messages |-> m, activeNode |-> a, threw |-> FALSE]
Throw(st) == [st EXCEPT !.threw = TRUE]

\* Faulty variant of Catch: the try block has no catch, the exception propagates.
CatchRethrows(res) == res

\* catch (e) {}: the exception is swallowed, the sets made before it stay.
Catch(res) == [res EXCEPT !.threw = FALSE]

\* onRun, the try block of forEach(line => ...).  JSON.parse throws a
\* SyntaxError on text that is not JSON; data.node throws a TypeError on null.
OnRunTry(line, st) ==
  LET data == JSONParse(ReplaceTag(line)) IN
  IF data.threw \/ data.isNull THEN Throw(st)
  ELSE LET node == Get(data, "node")
           content == Get(data, "content")
           a == IF Truthy(node) THEN node ELSE st.activeNode
           m == IF Truthy(content) /\ content # Sentinel
                THEN Append(st.messages, Step(node, "assistant", content))
                ELSE st.messages
       IN  [st EXCEPT !.messages = m, !.activeNode = a]

OnRunLine(line, st) ==
  IF ~StartsWithTag(line) THEN st ELSE Catch(OnRunTry(line, st))

\* handleSubmit, the try block of forEach(line => ...).  Object.keys throws a
\* TypeError on null.
HandleSubmitTry(line, st) ==
  LET data == JSONParse(ReplaceTag(line)) IN
  IF data.threw \/ data.isNull THEN Throw(st)
  ELSE LET node == FirstKey(data)
           step == Step(node, "assistant", Get(data, node))
       IN  [st EXCEPT !.messages = Append(@, step), !.activeNode = node]

HandleSubmitLine(line, st) ==
  IF ~StartsWithTag(line) THEN st
  ELSE IF IncludesDone(line) THEN [st EXCEPT !.activeNode = Null]
  ELSE Catch(HandleSubmitTry(line, st))

LineHandler(u, line, st) ==
  IF u = "threads" THEN OnRunLine(line, st) ELSE HandleSubmitLine(line, st)

\* decoder.decode(value).split('\n\n').forEach(...)
RECURSIVE ForEachLine(_, _, _)
ForEachLine(u, lines, st) ==
  IF lines = <<>> \/ st.threw THEN st
  ELSE ForEachLine(u, Tail(lines), LineHandler(u, Head(lines), st))

\* Faulty variant of ProcessChunk: the steps of a chunk replace the list
\* (setMessages(steps) instead of setMessages(p => [...p, step])).
ProcessChunkFresh(u, chunk, st) ==
  ForEachLine(u, Split(chunk), [st EXCEPT !.messages = <<>>])

ProcessChunk(u, chunk, st) == ForEachLine(u, Split(chunk), st)

---------------------------------------------------------------------------
(* What the collaborators may send.                                        *)

\* Frame bodies of POST /chat: encoding (a) with and without the sentinel,
\* encoding (b), the completion frame, and a body that is not JSON.
FSentinel == Obj2("node", "A", "content", Sentinel)
FHello == Obj2("node", "A", "content", "hello")
FKeyed == Obj1("B", "hi")
FDone == Obj1("done", True)
FBad == <<"{", "node">>

\* Frames of encoding (b) whose node id, or whose content, contains 'done'.
FDoneNode == Obj1("done_node", "hi")
FDoneText == Obj1("B", "done!")

SessionFrames == {FHello, FDone}
StreamFrames == {FSentinel, FHello, FKeyed, FDone, FBad}

\* Chunks made of whole frames.
FrameSeqs(F, n) == UNION {[1..k -> F] : k \in 1..n}
WireOf(fs) == Concat([i \in 1..Len(fs) |-> Wire(fs[i])])

\* The frame-aligned chunks a reader may receive: one frame per chunk in a
\* session, any number of frames per chunk when a single stream is followed.
SessionChunks == FrameSeqs(SessionFrames, 1)
StreamChunks == FrameSeqs(StreamFrames, MaxFrames)

\* The frames a server of encoding (b) sends, one per chunk.
KeyedFrames == {FKeyed, FDoneNode, FDoneText, FDone}
KeyedChunks == FrameSeqs(KeyedFrames, 1)

\* Texts typed into the input box.
Inputs == {"", " ", "hi"}
SessionInputs == {"", "hi"}

\* Thread ids.  `debug-${Date.now()}`
DebugId(t) == "debug-" \o ToString(t)
ListedIds == {"t1", DebugId(0)}

\* Responses of GET /threads (the ids of the listed threads) and of
\* GET /history/:id.
ThreadLists == {<<"t1", DebugId(0)>>}
Histories == {<<>>, <<Step("user", "user", "hi"), Step("B", "assistant", "old")>>}

---------------------------------------------------------------------------
(* The graph loader.  A node id or an edge endpoint of the /graph response  *)
(* is a JSON string or a JSON number, kept with its text.                  *)

Str(s) == [type |-> "string", text |-> s]
Num(s) == [type |-> "number", text |-> s]

\* String(v)
String(v) == Str(v.text)

\* Texts that contain the substring '__'.
VirtualTexts == {"__start__"}

\* n.id.includes('__'); a number has no method includes.
IncludesMark(v) == v.text \in VirtualTexts

\* data.nodes and data.edges: absent, or a list.  The items of nodes are the
\* ids the loaders read: the id member of each element when nodes is an
\* array, the keys when it is an object ({ id, ...val }).
Absent == [kind |-> "absent", items |-> <<>>]
NodeArray(ids) == [kind |-> "array", items |-> ids]
NodeObject(keys) == [kind |-> "object", items |-> [i \in 1..Len(keys) |-> Str(keys[i])]]
EdgeArray(es) == [kind |-> "array", items |-> es]
Edge(s, t) == [source |-> s, target |-> t]

NoGraph == [isStateful |-> FALSE, nodes |-> Absent, edges |-> Absent]

\* g.hasNode(String(v)) after g.setNode was called for every id of ids; the
\* graph library keys its nodes by the string of the id.
HasNode(ids, v) == \E i \in 1..Len(ids) : String(ids[i]) = String(v)

\* data.edges.filter(e => g.hasNode(String(e.source)) &&
\*                         g.hasNode(String(e.target)))
ValidEdges(ids, es) ==
  SelectSeq(es, LAMBDA e : HasNode(ids, e.source) /\ HasNode(ids, e.target))

\* setNodes(raw.map(n => ({ id, ..., className: `... ${n.id.includes('__')
\* ? 'virtual' : ''}` })))
FlowNodes(ids) ==
  [i \in 1..Len(ids) |-> [id |-> String(ids[i]).text, virtual |-> IncludesMark(ids[i])]]

\* setEdges(es.map((e, i) => ({ source: String(e.source),
\*                               target: String(e.target), ... })))
FlowEdges(es) ==
  [i \in 1..Len(es) |-> Edge(String(es[i].source).text, String(es[i].target).text)]

\* The callback of the /graph response.  Object.entries(undefined),
\* undefined.filter, undefined.forEach and (number).includes throw a
\* TypeError; every set of nodes and edges comes after them.  The "threads"
\* App stores the filtered edges, the "basic" App stores data.edges.
GraphLoader(u, data) ==
  LET ids == data.nodes.items
      es == data.edges.items
      threw == \/ data.nodes.kind = "absent"
               \/ data.edges.kind = "absent"
               \/ \E i \in 1..Len(ids) : ids[i].type = "number"
  IN  IF threw THEN [threw |-> TRUE, nodes |-> <<>>, edges |-> <<>>]
      ELSE [threw |-> FALSE,
            nodes |-> FlowNodes(ids),
            edges |-> FlowEdges(IF u = "threads" THEN ValidEdges(ids, es) ELSE es)]

\* Responses of GET /graph.
NodeKeys == {"A", "1", "__start__"}
NodeIds == {Str(k) : k \in NodeKeys} \cup {Num("1")}
EndIds == {Str("A"), Str("1"), Num("1")}
Edges == {Edge(s, t) : s, t \in EndIds}

SeqsUpTo(S, n) == UNION {[1..k -> S] : k \in 0..n}
Distinct(seq) == \A i, j \in 1..Len(seq) : seq[i] = seq[j] => i = j

NodeFields ==
  {Absent} \cup {NodeArray(ids) : ids \in SeqsUpTo(NodeIds, MaxNodes)}
           \cup {NodeObject(keys) : keys \in {k \in SeqsUpTo(NodeKeys, MaxNodes) : Distinct(k)}}
EdgeFields == {Absent} \cup {EdgeArray(es) : es \in SeqsUpTo(Edges, MaxEdges)}

Graphs ==
  [isStateful : BOOLEAN, nodes : NodeFields, edges : EdgeFields]

\* The graph of a session: { nodes: {A: {}, 1: {}}, edges: [A -> 1] }.
SessionGraphs ==
  {[isStateful |-> b, nodes |-> NodeObject(<<"A", "1">>),
    edges |-> EdgeArray(<<Edge(Str("A"), Str("1"))>>)] : b \in BOOLEAN}

---------------------------------------------------------------------------
(* The payload renderer of the "threads" App.  A JSON value is kept as its *)
(* type, its text when it is a primitive, and its members in order when it *)
(* is an object or an array (the keys of an array are its indices).        *)

JValue(type, text, members) == [type |-> type, text |-> text, members |-> members]
JUndefined == JValue("undefined", "", <<>>)
JNull == JValue("null", "", <<>>)
JString(s) == JValue("string", s, <<>>)
JNumber(s) == JValue("number", s, <<>>)
JBoolean(s) == JValue("boolean", s, <<>>)
JObject(members) == JValue("object", "", members)
JArray(items) ==
  JValue("array", "", [i \in 1..Len(items) |-> <<ToString(i - 1), items[i]>>])

\* Truthiness of a value: value[0].content || ..., m.content || ...
IsTruthy(v) ==
  ~ \/ v.type \in {"undefined", "null"}
    \/ v.type = "string" /\ v.text = ""
    \/ v.type = "number" /\ v.text = "0"
    \/ v.type = "boolean" /\ v.text = "false"

\* Reading a property of null or undefined throws a TypeError.
Nullish(v) == v.type \in {"undefined", "null"}

\* v.k for v neither null nor undefined: undefined when v has no member k.
Prop(v, k) ==
  LET idx == {i \in 1..Len(v.members) : v.members[i][1] = k}
  IN  IF idx = {} THEN JUndefined
      ELSE v.members[CHOOSE i \in idx : \A j \in idx : j <= i][2]

\* value[i]
Item(value, i) == value.members[i][2]

\* Array.isArray(value) && value.length > 0 &&
\*   (value[0].content || value[0].kwargs), where value[0] is not nullish.
IsMessageList(value) ==
  /\ value.type = "array"
  /\ Len(value.members) > 0
  /\ IsTruthy(Prop(Item(value, 1), "content")) \/ IsTruthy(Prop(Item(value, 1), "kwargs"))

\* m.content || m.kwargs?.content || ""
MessageText(m) ==
  LET content == Prop(m, "content")
      kwargs == Prop(m, "kwargs")
      nested == IF Nullish(kwargs) THEN JUndefined ELSE Prop(kwargs, "content")
  IN  IF IsTruthy(content) THEN content
      ELSE IF IsTruthy(nested) THEN nested ELSE JString("")

NoShape == [threw |-> FALSE, variant |-> "", texts |-> <<>>]
Shape(variant, texts) == [threw |-> FALSE, variant |-> variant, texts |-> texts]
RenderThrows == [threw |-> TRUE, variant |-> "", texts |-> <<>>]

\* The body of Object.entries(step.updates || {}).map(([key, value]) => ...):
\* the three heuristics in their order.  value[0].content throws when
\* value[0] is null, m.content throws when m is null.
RenderValue(value) ==
  IF value.type = "array" /\ Len(value.members) > 0 /\ Nullish(Item(value, 1))
  THEN RenderThrows
  ELSE IF IsMessageList(value)
       THEN IF \E i \in 1..Len(value.members) : Nullish(Item(value, i))
            THEN RenderThrows
            ELSE Shape("MessageSequence",
                       [i \in 1..Len(value.members) |-> MessageText(Item(value, i))])
       ELSE IF value.type = "string" THEN Shape("PlainText", <<value>>)
            ELSE Shape("StructuredData", <<>>)

\* Payload values of a step: primitives, objects, and arrays of them.
Primitives == {JNull, JString("hi"), JString(""), JNumber("1"), JBoolean("true")}
Objects ==
  {JObject(<<>>),
   JObject(<< <<"a", JNumber("1")>> >>),
   JObject(<< <<"content", JString("hi")>> >>),
   JObject(<< <<"content", JString("")>> >>),
   JObject(<< <<"kwargs", JObject(<< <<"content", JString("hi")>> >>)>> >>),
   JObject(<< <<"kwargs", JObject(<<>>)>> >>)}
Elements == Primitives \cup Objects
Payloads == Elements \cup {JArray(items) : items \in SeqsUpTo(Elements, MaxItems)}

---------------------------------------------------------------------------
(* State *)

NoFetches == [id \in ListedIds |-> 0]

Op(name) ==
  [op |-> name, run |-> 0, input |-> "", id |-> "", idx |-> 0, chunk |-> <<>>,
   hist |-> <<>>, data |-> NoGraph, value |-> JUndefined, shape |-> NoShape]

\* got: the frames the server has sent on the stream; cut: the rest of the
\* last of them when the network delivered only its beginning so far.
Run(threadId, val) ==
  [pc |-> "fetching", threadId |-> threadId, input |-> val, got |-> <<>>,
   emitted |-> <<>>, cut |-> <<>>]

Init ==
  /\ ui \in {"threads", "basic"}
  /\ now = 0
  /\ graphFetch = "pending"
  /\ nodes = <<>>
  /\ edges = <<>>
  /\ isStateful = FALSE
  /\ threads = <<>>
  /\ currentThreadId = IF ui = "threads" THEN DebugId(now) ELSE Undefined
  /\ messages = <<>>
  /\ activeNode = Null
  /\ hovered = FALSE
  /\ runs = <<>>
  /\ historyFetches = NoFetches
  /\ ops = 0
  /\ last = Op("mount")

\* The pointer after a render that replaced the steps: a step element that
\* is unmounted receives no mouseleave, so the pointer is over no step when
\* the hovered one is gone (always, when none is left; possibly, when the
\* list got shorter).
HoverAfterRender ==
  hovered' \in IF ~hovered \/ Len(messages') = 0 THEN {FALSE}
               ELSE IF Len(messages') < Len(messages) THEN {TRUE, FALSE}
               ELSE {TRUE}

---------------------------------------------------------------------------
(* Mount effects and the thread explorer ("threads" App)                   *)

\* fetch('/graph').then(r => r.json()).then(data => { ... }): the response
\* data arrives.  The "threads" App calls setIsStateful first; an exception
\* in the callback rejects the promise, and what was not yet set stays.
GraphLoaded(data) ==
  /\ graphFetch = "pending"
  /\ isStateful' = IF ui = "threads" THEN data.isStateful ELSE isStateful
  /\ LET res == GraphLoader(ui, data) IN
       IF res.threw
       THEN /\ graphFetch' = "failed"
            /\ UNCHANGED <<nodes, edges>>
       ELSE /\ graphFetch' = "loaded"
            /\ nodes' = res.nodes
            /\ edges' = res.edges
  /\ ops' = ops
  /\ last' = [Op("graph") EXCEPT !.data = data]
  /\ UNCHANGED <<ui, threads, currentThreadId, messages, activeNode, hovered, now,
                 runs, historyFetches>>

\* useEffect(() => { if (isStateful) fetch(`/threads...`).then(r => r.json())
\* .then(setThreads) }, [search, isStateful, messages.length]): a request is
\* issued whenever isStateful holds and the search text or the number of
\* steps changes; this is the arrival of one response.
ThreadsResponse(list) ==
  /\ ui = "threads"
  /\ isStateful
  /\ threads' = list
  /\ ops' = ops
  /\ last' = Op("threads")
  /\ UNCHANGED <<ui, graphFetch, nodes, edges, isStateful, currentThreadId, messages, activeNode, hovered, now,
                 runs, historyFetches>>

\* onClick={() => loadThread(t.id)} on an entry of the thread list.
LoadThread(id) ==
  /\ ui = "threads"
  /\ ops < MaxOps
  /\ isStateful
  /\ \E i \in 1..Len(threads) : threads[i] = id
  /\ ~hovered
  /\ currentThreadId' = id
  /\ historyFetches' = [historyFetches EXCEPT ![id] = @ + 1]
  /\ ops' = ops + 1
  /\ last' = [Op("loadThread") EXCEPT !.id = id]
  /\ UNCHANGED <<ui, graphFetch, nodes, edges, isStateful, threads, messages, activeNode, hovered, now,
                 runs>>

\* fetch(`/history/${id}`).then(r => r.json()).then(setMessages)
HistoryResponse(id, H) ==
  /\ historyFetches[id] > 0
  /\ historyFetches' = [historyFetches EXCEPT ![id] = @ - 1]
  /\ messages' = H
  /\ ops' = ops
  /\ last' = [Op("history") EXCEPT !.id = id, !.hist = H]
  /\ UNCHANGED <<ui, graphFetch, nodes, edges, isStateful, threads, currentThreadId, activeNode, now,
                 runs>>
  /\ HoverAfterRender


\* The same fetch, rejected: no handler is attached, nothing is set.
HistoryFail(id) ==
  /\ historyFetches[id] > 0
  /\ historyFetches' = [historyFetches EXCEPT ![id] = @ - 1]
  /\ ops' = ops
  /\ last' = [Op("historyFail") EXCEPT !.id = id]
  /\ UNCHANGED <<ui, graphFetch, nodes, edges, isStateful, threads, currentThreadId, messages, activeNode,
                 hovered, now, runs>>

\* dt is the time elapsed since Date.now() was last read.
\* <Plus onClick={() => { setCurrentThreadId(`debug-${Date.now()}`);
\*                        setMessages([]); }} />
NewThread(dt) ==
  /\ ui = "threads"
  /\ ops < MaxOps
  /\ isStateful
  /\ ~hovered
  /\ now' = now + dt
  /\ currentThreadId' = DebugId(now')
  /\ messages' = <<>>
  /\ ops' = ops + 1
  /\ last' = Op("newThread")
  /\ UNCHANGED <<ui, graphFetch, nodes, edges, isStateful, threads, activeNode, runs, historyFetches>>
  /\ HoverAfterRender


\* onMouseEnter={() => setActiveNode(step.node)}
HoverEnter(i) ==
  /\ ui = "threads"
  /\ ops < MaxOps
  /\ ~hovered
  /\ i \in 1..Len(messages)
  /\ hovered' = TRUE
  /\ activeNode' = messages[i].node
  /\ ops' = ops + 1
  /\ last' = [Op("hoverEnter") EXCEPT !.idx = i]
  /\ UNCHANGED <<ui, graphFetch, nodes, edges, isStateful, threads, currentThreadId, messages, now,
                 runs, historyFetches>>

\* Faulty variant of HoverLeave: the highlight stays when the pointer leaves.
HoverLeaveKeeps ==
  /\ ui = "threads"
  /\ hovered
  /\ hovered' = FALSE
  /\ ops' = ops
  /\ last' = Op("hoverLeave")
  /\ UNCHANGED <<ui, graphFetch, nodes, edges, isStateful, threads, currentThreadId,
                 messages, activeNode, now, runs, historyFetches>>

\* onMouseLeave={() => setActiveNode(null)}
HoverLeave ==
  /\ ui = "threads"
  /\ hovered
  /\ hovered' = FALSE
  /\ activeNode' = Null
  /\ ops' = ops
  /\ last' = Op("hoverLeave")
  /\ UNCHANGED <<ui, graphFetch, nodes, edges, isStateful, threads, currentThreadId, messages, now,
                 runs, historyFetches>>

\* The trace panel renders one value of step.updates.  An exception thrown
\* while rendering is not caught by the App.
RenderUpdate(value) ==
  /\ ui = "threads"
  /\ ops' = ops
  /\ last' = [Op("render") EXCEPT !.value = value, !.shape = RenderValue(value)]
  /\ UNCHANGED <<ui, graphFetch, nodes, edges, isStateful, threads, currentThreadId,
                 messages, activeNode, hovered, now, runs, historyFetches>>

---------------------------------------------------------------------------
(* The submit handlers and their read loops                                *)

\* Faulty variant of OnRunRejects: the guard on the empty input is missing.
OnRunRejectsNothing(val) == FALSE

\* onRun: const val = input.value; if (!val) return;
OnRunRejects(val) == ~Truthy(val)

\* handleSubmit: if (!input.trim()) return;
HandleSubmitRejects(val) == ~Truthy(Trim(val))

\* onRun up to its first await: the optimistic user step and POST /chat with
\* { input: val, threadId: currentThreadId }.
OnRun(val) ==
  /\ ui = "threads"
  /\ IF OnRunRejects(val)
     THEN /\ last' = [Op("submit") EXCEPT !.input = val]
          /\ UNCHANGED <<messages, runs, ops>>
     ELSE /\ ops < MaxOps
          /\ ops' = ops + 1
          /\ messages' = Append(messages, Step("user", "user", val))
          /\ runs' = Append(runs, Run(currentThreadId, val))
          /\ last' = [Op("submit") EXCEPT !.input = val, !.run = Len(runs) + 1]
  /\ UNCHANGED <<ui, graphFetch, nodes, edges, isStateful, threads, currentThreadId, activeNode, hovered, now,
                 historyFetches>>

\* handleSubmit up to its first await: POST /chat with { input: val }.
HandleSubmit(val) ==
  /\ ui = "basic"
  /\ IF HandleSubmitRejects(val)
     THEN /\ last' = [Op("submit") EXCEPT !.input = val]
          /\ UNCHANGED <<messages, runs, ops>>
     ELSE /\ ops < MaxOps
          /\ ops' = ops + 1
          /\ messages' = Append(messages, Step(Undefined, "user", val))
          /\ runs' = Append(runs, Run(Undefined, val))
          /\ last' = [Op("submit") EXCEPT !.input = val, !.run = Len(runs) + 1]
  /\ UNCHANGED <<ui, graphFetch, nodes, edges, isStateful, threads, currentThreadId, activeNode,
                 hovered, now, historyFetches>>

\* await fetch('/chat', ...) resolves; res.body.getReader()
OpenStream(r) ==
  /\ r \in 1..Len(runs)
  /\ runs[r].pc = "fetching"
  /\ runs' = [runs EXCEPT ![r].pc = "reading"]
  /\ ops' = ops
  /\ last' = [Op("open") EXCEPT !.run = r]
  /\ UNCHANGED <<ui, graphFetch, nodes, edges, isStateful, threads, currentThreadId, messages, activeNode,
                 hovered, now, historyFetches>>

\* await fetch('/chat', ...) rejects: the handler's promise rejects.
OpenFail(r) ==
  /\ r \in 1..Len(runs)
  /\ runs[r].pc = "fetching"
  /\ runs' = [runs EXCEPT ![r].pc = "failed"]
  /\ ops' = ops
  /\ last' = [Op("openFail") EXCEPT !.run = r]
  /\ UNCHANGED <<ui, graphFetch, nodes, edges, isStateful, threads, currentThreadId, messages, activeNode,
                 hovered, now, historyFetches>>

\* One pass of while (true): reader.read() yields a chunk made of the frames
\* fs, which is decoded, split and handled line by line.  An exception that
\* leaves forEach leaves the loop and rejects the handler's promise.
ReadChunk(r, fs) ==
  /\ r \in 1..Len(runs)
  /\ runs[r].pc = "reading"
  /\ runs[r].cut = <<>>
  /\ Len(runs[r].got) + Len(fs) <= MaxFrames
  /\ LET st == ProcessChunk(ui, WireOf(fs), Acc(messages, activeNode)) IN
       /\ messages' = st.messages
       /\ activeNode' = st.activeNode
       /\ runs' = [runs EXCEPT
                     ![r].got = @ \o fs,
                     ![r].emitted = @ \o SubSeq(st.messages, Len(messages) + 1,
                                                Len(st.messages)),
                     ![r].pc = IF st.threw THEN "failed" ELSE @]
  /\ ops' = ops
  /\ last' = [Op("read") EXCEPT !.run = r, !.chunk = fs]
  /\ UNCHANGED <<ui, graphFetch, nodes, edges, isStateful, threads, currentThreadId, hovered, now,
                 historyFetches>>

\* The same pass when the chunk ends inside a frame: reader.read() yields the
\* first k tokens of the frame f, the rest of it has not arrived yet.
ReadHead(r, f, k) ==
  /\ r \in 1..Len(runs)
  /\ runs[r].pc = "reading"
  /\ runs[r].cut = <<>>
  /\ Len(runs[r].got) + 1 <= MaxFrames
  /\ k \in 1..(Len(Wire(f)) - 1)
  /\ LET st == ProcessChunk(ui, SubSeq(Wire(f), 1, k), Acc(messages, activeNode)) IN
       /\ messages' = st.messages
       /\ activeNode' = st.activeNode
       /\ runs' = [runs EXCEPT
                     ![r].got = Append(@, f),
                     ![r].cut = SubSeq(Wire(f), k + 1, Len(Wire(f))),
                     ![r].emitted = @ \o SubSeq(st.messages, Len(messages) + 1,
                                                Len(st.messages)),
                     ![r].pc = IF st.threw THEN "failed" ELSE @]
  /\ ops' = ops
  /\ last' = [Op("readHead") EXCEPT !.run = r, !.chunk = <<f>>, !.idx = k]
  /\ UNCHANGED <<ui, graphFetch, nodes, edges, isStateful, threads, currentThreadId,
                 hovered, now, historyFetches>>

\* The next pass: reader.read() yields the rest of the frame, followed by the
\* frames fs.
ReadTail(r, fs) ==
  /\ r \in 1..Len(runs)
  /\ runs[r].pc = "reading"
  /\ runs[r].cut # <<>>
  /\ Len(runs[r].got) + Len(fs) <= MaxFrames
  /\ LET st == ProcessChunk(ui, runs[r].cut \o WireOf(fs), Acc(messages, activeNode)) IN
       /\ messages' = st.messages
       /\ activeNode' = st.activeNode
       /\ runs' = [runs EXCEPT
                     ![r].got = @ \o fs,
                     ![r].cut = <<>>,
                     ![r].emitted = @ \o SubSeq(st.messages, Len(messages) + 1,
                                                Len(st.messages)),
                     ![r].pc = IF st.threw THEN "failed" ELSE @]
  /\ ops' = ops
  /\ last' = [Op("readTail") EXCEPT !.run = r, !.chunk = fs]
  /\ UNCHANGED <<ui, graphFetch, nodes, edges, isStateful, threads, currentThreadId,
                 hovered, now, historyFetches>>

\* After the loop: onRun calls setActiveNode(null); handleSubmit has nothing
\* after its loop.
AfterLoop(u, a) == IF u = "threads" THEN Null ELSE a

\* reader.read() yields { done: true }: break.
ReadDone(r) ==
  /\ r \in 1..Len(runs)
  /\ runs[r].pc = "reading"
  /\ runs' = [runs EXCEPT ![r].pc = "closed"]
  /\ activeNode' = AfterLoop(ui, activeNode)
  /\ ops' = ops
  /\ last' = [Op("close") EXCEPT !.run = r]
  /\ UNCHANGED <<ui, graphFetch, nodes, edges, isStateful, threads, currentThreadId, messages, hovered,
                 now, historyFetches>>

\* Faulty variant of ReadError: the failure rolls the optimistic user step back.
ReadErrorRollsBack(r) ==
  /\ r \in 1..Len(runs)
  /\ runs[r].pc = "reading"
  /\ runs' = [runs EXCEPT ![r].pc = "failed"]
  /\ messages' = SelectSeq(messages, LAMBDA m : m.role # "user")
  /\ ops' = ops
  /\ last' = [Op("readError") EXCEPT !.run = r]
  /\ UNCHANGED <<ui, graphFetch, nodes, edges, isStateful, threads, currentThreadId, activeNode, hovered, now,
                 historyFetches>>

\* reader.read() rejects: the exception leaves the loop and the handler.
ReadError(r) ==
  /\ r \in 1..Len(runs)
  /\ runs[r].pc = "reading"
  /\ runs' = [runs EXCEPT ![r].pc = "failed"]
  /\ ops' = ops
  /\ last' = [Op("readError") EXCEPT !.run = r]
  /\ UNCHANGED <<ui, graphFetch, nodes, edges, isStateful, threads, currentThreadId, messages, activeNode,
                 hovered, now, historyFetches>>

---------------------------------------------------------------------------
(* Specifications *)

RunIds == 1..MaxOps

\* The number of frames the streams of the session have delivered so far.
RECURSIVE Delivered(_)
Delivered(rs) == IF rs = <<>> THEN 0 ELSE Len(Head(rs).got) + Delivered(Tail(rs))

\* No reachable list of steps is longer than this.
MaxSteps == 2 + MaxOps * (1 + MaxFrames)

\* A session: everything the user and the collaborators can do.
Next ==
  \/ \E data \in SessionGraphs : GraphLoaded(data)
  \/ \E l \in ThreadLists : ThreadsResponse(l)
  \/ \E id \in ListedIds : LoadThread(id)
  \/ \E id \in ListedIds, H \in Histories : HistoryResponse(id, H)
  \/ \E id \in ListedIds : HistoryFail(id)
  \/ \E dt \in 0..1 : NewThread(dt)
  \/ \E i \in 1..MaxSteps : HoverEnter(i)
  \/ HoverLeave
  \/ \E val \in SessionInputs : OnRun(val)
  \/ \E val \in SessionInputs : HandleSubmit(val)
  \/ \E r \in RunIds : OpenStream(r)
  \/ \E r \in RunIds : OpenFail(r)
  \/ \E r \in RunIds, fs \in SessionChunks :
       /\ Delivered(runs) < MaxSessionFrames
       /\ ReadChunk(r, fs)
  \/ \E r \in RunIds : ReadDone(r)
  \/ \E r \in RunIds : ReadError(r)

Spec == Init /\ [][Next]_vars

\* One stream followed from submit to its end, over every frame sequence.
NextStream ==
  \/ \E val \in Inputs : Len(runs) = 0 /\ OnRun(val)
  \/ \E val \in Inputs : Len(runs) = 0 /\ HandleSubmit(val)
  \/ OpenStream(1)
  \/ OpenFail(1)
  \/ \E fs \in StreamChunks : ReadChunk(1, fs)
  \/ ReadDone(1)
  \/ ReadError(1)

SpecStream == Init /\ [][NextStream]_vars

\* One stream whose chunks may end inside a frame or inside the blank line
\* that ends it.
TailChunks == SeqsUpTo(StreamFrames, 1)

NextChunks ==
  \/ \E val \in Inputs : Len(runs) = 0 /\ OnRun(val)
  \/ \E val \in Inputs : Len(runs) = 0 /\ HandleSubmit(val)
  \/ OpenStream(1)
  \/ OpenFail(1)
  \/ \E fs \in StreamChunks : ReadChunk(1, fs)
  \/ \E f \in StreamFrames : \E k \in 1..(Len(Wire(f)) - 1) : ReadHead(1, f, k)
  \/ \E fs \in TailChunks : ReadTail(1, fs)
  \/ ReadDone(1)
  \/ ReadError(1)

SpecChunks == Init /\ [][NextChunks]_vars

\* One stream of a server of encoding (b).
NextKeyed ==
  \/ \E val \in Inputs : Len(runs) = 0 /\ OnRun(val)
  \/ \E val \in Inputs : Len(runs) = 0 /\ HandleSubmit(val)
  \/ OpenStream(1)
  \/ OpenFail(1)
  \/ \E fs \in KeyedChunks : ReadChunk(1, fs)
  \/ ReadDone(1)
  \/ ReadError(1)

SpecKeyed == Init /\ [][NextKeyed]_vars

\* The mount effect alone, over every /graph response.
NextGraph == \E data \in Graphs : GraphLoaded(data)

SpecGraph == Init /\ [][NextGraph]_vars

\* The payload renderer alone, over every payload value.
NextRender == \E value \in Payloads : RenderUpdate(value)

SpecRender == Init /\ [][NextRender]_vars

---------------------------------------------------------------------------
(* Vocabulary of the properties *)

None == Null

\* The run the last continuation belonged to.
LastRun == runs[last.run]

\* A run holds its stream from the resolution of fetch to the end of the loop.
Reading(run) == run.pc = "reading"
Busy(run) == run.pc \in {"fetching", "reading"}

Range(seq) == {seq[i] : i \in 1..Len(seq)}

\* The frames of a stream whose body parses as JSON.
Parseable(fs) == SelectSeq(fs, LAMBDA f : ~JSONParse(f).threw)

\* The steps a handler appends when the frames fs arrive whole, in one chunk.
StepsOf(u, fs) == ProcessChunk(u, WireOf(fs), Acc(<<>>, None)).messages

IsPrefix(s, t) == Len(s) <= Len(t) /\ SubSeq(t, 1, Len(s)) = s

\* The node id and the payload a frame carries, in either encoding:
\* {node: id, content: v} or {id: v}.
NodeIdOf(f) == IF f[2] = "node" THEN f[3] ELSE f[2]
PayloadOf(f) == IF f[2] = "node" THEN f[5] ELSE f[3]

---------------------------------------------------------------------------
(* C1: once currentThreadId differs from the thread id a stream was opened *)
(* for, a frame read from that stream neither appends to messages nor sets *)
(* activeNode.                                                             *)
C1_AbandonedRunIsDiscarded ==
  [][(last'.op = "read" /\ runs[last'.run].threadId # currentThreadId)
       => (messages' = messages /\ activeNode' = activeNode)]_vars

(* C2: when the history H fetched by loadThread(id) arrives and id is      *)
(* still the selected thread, messages is H and activeNode is none.        *)
C2_LoadThreadReplacesAndClears ==
  (last.op = "history" /\ currentThreadId = last.id)
    => (messages = last.hist /\ activeNode = None)

(* C3: when a run terminates, by the stream closing or by a failed read,   *)
(* activeNode is none.                                                     *)
C3_TerminationClearsActiveNode ==
  last.op \in {"close", "readError"} => activeNode = None

(* C4: a sentinel frame appends no step: a run has appended at most one    *)
(* step per frame that is not a sentinel frame; and the stream sentinel,   *)
(* hello, done has appended exactly one step and leaves activeNode none    *)
(* when it closes.                                                         *)
C4_SentinelAppendsNothing ==
  \A r \in 1..Len(runs) :
    /\ Len(runs[r].emitted)
         <= Cardinality({i \in 1..Len(runs[r].got) : runs[r].got[i] # FSentinel})
    /\ (/\ last.op = "close"
        /\ last.run = r
        /\ runs[r].got = <<FSentinel, FHello, FDone>>)
         => (Len(runs[r].emitted) = 1 /\ activeNode = None)

(* C5: a frame that does not parse appends nothing and does not end the    *)
(* loop: the steps a run has appended are those of the parseable frames it *)
(* received, in their order, and after a chunk is handled the run is still *)
(* reading.                                                                *)
C5_UnparseableFrameIsDropped ==
  /\ \A r \in 1..Len(runs) : runs[r].emitted = StepsOf(ui, Parseable(runs[r].got))
  /\ last.op = "read" => Reading(LastRun)

\* An unparseable frame was followed, on the same stream, by a frame that
\* appended a step.
C5_Witness ==
  /\ Len(runs) = 1
  /\ \E i \in 1..Len(runs[1].got) :
       /\ runs[1].got[i] = FBad
       /\ StepsOf(ui, SubSeq(runs[1].got, i + 1, Len(runs[1].got))) # <<>>
  /\ runs[1].emitted # <<>>

(* C6: a submit of the empty input changes nothing and issues no request.  *)
C6_EmptySubmitIsNoOp ==
  [][(last'.op = "submit" /\ last'.input = "")
       => UNCHANGED <<messages, activeNode, currentThreadId, runs>>]_vars

\* The empty input was submitted while a run was in progress.
C6_Witness ==
  /\ last.op = "submit"
  /\ last.input = ""
  /\ \E r \in 1..Len(runs) : Busy(runs[r])

(* C7: a failure to open or to read the stream leaves messages as they     *)
(* are, ends the run (it is busy no more) and issues no request; a request *)
(* is only ever issued by a submit.                                        *)
C7_FailureKeepsSteps ==
  [][/\ last'.op \in {"openFail", "readError"}
          => /\ messages' = messages
             /\ Len(runs') = Len(runs)
             /\ ~Busy(runs'[last'.run])
     /\ Len(runs') # Len(runs) => last'.op = "submit"]_vars

\* A read failed after the run had appended a step to the optimistic one.
C7_Witness ==
  /\ last.op = "readError"
  /\ LastRun.emitted # <<>>
  /\ Len(messages) >= 2

(* C8: after the new-thread action messages is empty and activeNode none.  *)
C8_NewThreadClears ==
  last.op = "newThread" => (messages = <<>> /\ activeNode = None)

(* C9: at most one stream is being read at any time.                       *)
C9_OneStreamAtATime ==
  Cardinality({r \in 1..Len(runs) : Reading(runs[r])}) <= 1

(* C10: the completion frame clears activeNode, appends nothing and ends   *)
(* the iteration: a chunk read after it changes neither messages nor       *)
(* activeNode.                                                             *)
C10_CompletionEndsIteration ==
  [][last'.op = "read"
       => /\ last'.chunk = <<FDone>> => (messages' = messages /\ activeNode' = None)
          /\ FDone \in Range(runs[last'.run].got)
               => (messages' = messages /\ activeNode' = activeNode)]_vars

\* The variant the classification rule gives a value.  An element exposes
\* content when its content, or the content of its kwargs, is a non-empty
\* value.
Exposes(e) ==
  \/ IsTruthy(Prop(e, "content"))
  \/ IsTruthy(Prop(Prop(e, "kwargs"), "content"))

VariantOf(value) ==
  IF value.type = "array" /\ Len(value.members) > 0 /\ Exposes(Item(value, 1))
  THEN "MessageSequence"
  ELSE IF value.type = "string" THEN "PlainText" ELSE "StructuredData"

Variants == {"MessageSequence", "PlainText", "StructuredData"}

\* m.content, else m.kwargs.content, else the empty text; nothing is read
\* from a message that has no fields.
TextOf(m) ==
  IF IsTruthy(Prop(m, "content")) THEN Prop(m, "content")
  ELSE IF IsTruthy(Prop(Prop(m, "kwargs"), "content"))
       THEN Prop(Prop(m, "kwargs"), "content")
       ELSE JString("")

(* C11: a frame {node: id, content: v} with v not the sentinel, and a      *)
(* frame {id: v}, read alone in a chunk by either submit handler, each     *)
(* append exactly one step with node id and payload v and set activeNode   *)
(* to id.                                                                  *)
C11_BothEncodingsDecoded ==
  [][\A f \in {FHello, FKeyed} :
       (last'.op = "read" /\ last'.chunk = <<f>>)
         => /\ Len(messages') = Len(messages) + 1
            /\ SubSeq(messages', 1, Len(messages)) = messages
            /\ messages'[Len(messages')].node = NodeIdOf(f)
            /\ messages'[Len(messages')].content = PayloadOf(f)
            /\ activeNode' = NodeIdOf(f)]_vars

(* C12: in every transition other than the new-thread reset and the        *)
(* replacement by a fetched history, messages is a prefix of its next      *)
(* value.                                                                  *)
C12_StepsAppendOnly ==
  [][last'.op \notin {"newThread", "history"} => IsPrefix(messages, messages')]_vars

\* A frame was appended behind a loaded history and the optimistic user step.
C12_Witness ==
  /\ last.op = "read"
  /\ LastRun.emitted # <<>>
  /\ Len(messages) >= 4

(* C13: every edge the graph loader stores has its source and its target   *)
(* among the ids of the stored nodes, in both Apps.                        *)
C13_StoredEdgesAreClosed ==
  \A i \in 1..Len(edges) :
    /\ edges[i].source \in {nodes[j].id : j \in 1..Len(nodes)}
    /\ edges[i].target \in {nodes[j].id : j \in 1..Len(nodes)}

(* C18: whatever the /graph response, the loader raises no error and       *)
(* stores a node list and an edge list: one node per id, the id coerced to *)
(* a string, and no node and no edge for an absent field.                  *)
C18_MalformedGraphIsLoaded ==
  last.op = "graph"
    => /\ graphFetch = "loaded"
       /\ Len(nodes) = Len(last.data.nodes.items)
       /\ \A i \in 1..Len(nodes) : nodes[i].id = last.data.nodes.items[i].text
       /\ Len(edges) <= Len(last.data.edges.items)

(* C14: a rendered value is a MessageSequence exactly when it is a         *)
(* non-empty array whose first element exposes content or kwargs.content,  *)
(* otherwise PlainText exactly when it is a string, otherwise              *)
(* StructuredData.                                                         *)
C14_ClassifierFollowsRule ==
  (last.op = "render" /\ ~last.shape.threw)
    => last.shape.variant = VariantOf(last.value)

(* C15: rendering any payload value raises no error and yields exactly one *)
(* variant; a MessageSequence yields one text per message: its content,    *)
(* else its kwargs.content, else the empty text.                           *)
C15_ClassificationIsTotal ==
  last.op = "render"
    => /\ ~last.shape.threw
       /\ last.shape.variant \in Variants
       /\ last.shape.variant = "MessageSequence"
            => last.shape.texts =
                 [i \in 1..Len(last.value.members) |-> TextOf(Item(last.value, i))]

(* C16: entering a step sets activeNode to the node of that step, leaving  *)
(* it sets activeNode to none; both leave messages, currentThreadId and    *)
(* threads unchanged, open no stream and issue no fetch (no request to     *)
(* /chat or /history, and no change of what the /threads effect depends    *)
(* on).                                                                    *)
C16_HoverOnlySetsActiveNode ==
  [][/\ last'.op = "hoverEnter" => activeNode' = messages[last'.idx].node
     /\ last'.op = "hoverLeave" => activeNode' = None
     /\ last'.op \in {"hoverEnter", "hoverLeave"}
          => UNCHANGED <<messages, currentThreadId, threads, runs, historyFetches,
                         isStateful, graphFetch>>]_vars

\* The pointer left a step while a stream that had set activeNode was read.
C16_Witness ==
  /\ last.op = "hoverLeave"
  /\ \E r \in 1..Len(runs) : Reading(runs[r]) /\ runs[r].emitted # <<>>

(* C17: the id the new-thread action produces differs from the id current  *)
(* before it and from every listed thread id.                              *)
C17_NewThreadIdIsFresh ==
  [][last'.op = "newThread"
       => /\ currentThreadId' # currentThreadId
          /\ currentThreadId' \notin Range(threads)]_vars

(* C19: once the frames a server sent have arrived in full, the steps the  *)
(* run appended are those of the same frames delivered whole, however the  *)
(* stream was cut into chunks.                                             *)
C19_ChunkingIsInvisible ==
  \A r \in 1..Len(runs) :
    runs[r].cut = <<>> => runs[r].emitted = StepsOf(ui, runs[r].got)

(* C20: a history response fetched for a thread that is no longer the      *)
(* current one when it arrives does not replace messages.                  *)
C20_StaleHistoryIsDiscarded ==
  [][(last'.op = "history" /\ last'.id # currentThreadId)
       => messages' = messages]_vars

\* The steps a run of onRun has appended: the optimistic user step and the
\* steps of its frames.
RunSteps(run) == {Step("user", "user", run.input)} \cup Range(run.emitted)

(* C21: in every transition that is not the new-thread reset and leaves   *)
(* currentThreadId as it is, the steps a run appended stay in messages.    *)
C21_RunStepsStay ==
  [][(last'.op # "newThread" /\ currentThreadId' = currentThreadId)
       => \A r \in 1..Len(runs) :
            RunSteps(runs[r]) \subseteq Range(messages)
              => RunSteps(runs[r]) \subseteq Range(messages')]_vars

(* C22: in the App with the thread explorer, while a run is reading its    *)
(* stream, has appended a node step and no step is hovered, activeNode is  *)
(* the node of the step the run appended last.                             *)
C22_ActiveNodeFollowsLatestStep ==
  \A r \in 1..Len(runs) :
    (/\ ui = "threads"
     /\ Reading(runs[r])
     /\ runs[r].emitted # <<>>
     /\ ~hovered)
      => activeNode = runs[r].emitted[Len(runs[r].emitted)].node

(* C23: in handleSubmit, a frame read alone in a chunk whose body parses   *)
(* as JSON and which is not the completion frame appends exactly one step  *)
(* and sets activeNode to its node, also when its node id or its content   *)
(* contains 'done'.                                                        *)
C23_DoneSubstringIsPayload ==
  [][\A f \in KeyedFrames \ {FDone} :
       (ui = "basic" /\ last'.op = "read" /\ last'.chunk = <<f>>
          /\ ~JSONParse(f).threw)
         => /\ Len(messages') = Len(messages) + 1
            /\ messages'[Len(messages')].node = NodeIdOf(f)
            /\ activeNode' = NodeIdOf(f)]_vars

====
